---- MODULE Spec2Model ----
(***************************************************************************)
(* Verification model of four UI units of the repository:                  *)
(*   - TransactionGroup  (views/performance/traceDetails/transactionGroup) *)
(*   - DashboardsV2Container (views/dashboardsV2/index)                    *)
(*   - useOrganization / useOrgSlug (utils/useOrganization)                *)
(*   - Icon (breadcrumb type icon selector)                                *)
(* The rows are checked under Spec, the three stateless units under         *)
(* SpecViews.                                                              *)
(***************************************************************************)
EXTENDS Integers, Sequences, FiniteSets, TLC

\* ------------------------------------------------------------------ bounds
NumRows == 2
MaxToggles == 2
MaxFeatures == 2

Rows == 1..NumRows

VARIABLES
    mounted,     \* row -> BOOLEAN: the TransactionGroup instance exists
    props,       \* row -> this.props of the instance
    isExpanded,  \* row -> this.state.isExpanded
    pending,     \* row -> updates enqueued by this.setState, not yet applied
    toggles,     \* row -> number of toggleExpandedState invocations since mount
    output,      \* row -> what the last render() of the instance returned
    batching,    \* a React event handler is running: setState calls are batched
    applied,     \* row -> number of queued updates its last render applied
    last,        \* the operation that led to this state, and its row
    iconType, iconOut, prevType, prevOut,   \* last two renders of Icon
    ctxValue, hookName, hookOut,            \* last call of a useOrganization hook
    dashProps, loaderState, dashOut         \* last render of DashboardsV2Container

rowVars == <<mounted, props, isExpanded, pending, toggles, output, batching,
            applied, last>>
iconVars == <<iconType, iconOut, prevType, prevOut>>
orgVars == <<ctxValue, hookName, hookOut>>
dashVars == <<dashProps, loaderState, dashOut>>
viewVars == <<iconVars, orgVars, dashVars>>
vars == <<rowVars, viewVars>>

\* ================================================================ rows ====
\* Pre-rendered child rows a caller may pass as renderedChildren.
ChildA == [type |-> "TransactionGroup", key |-> "A"]
ChildB == [type |-> "TransactionGroup", key |-> "B"]

\* Props of a row: the eleven fields of type Props.  The fields the row only
\* hands on to the bar are carried as tokens.
MakeProps(r, children, visible, colour) ==
    [location |-> "location", organization |-> "organization",
     transaction |-> "transaction", traceInfo |-> "traceInfo",
     continuingDepths |-> <<>>, isOrphan |-> FALSE, isLast |-> FALSE,
     index |-> r - 1, isVisible |-> visible,
     renderedChildren |-> children, barColour |-> colour]

PropsOf(r) ==
    { MakeProps(r, <<ChildA, ChildB>>, TRUE, "undefined"),
      MakeProps(r, <<ChildA, ChildB>>, FALSE, "#444674"),
      MakeProps(r, <<ChildB>>, TRUE, "#444674") }

NoProps == MakeProps(1, <<>>, FALSE, "undefined")

\* state = {isExpanded: true}
InitialStateCollapsed == FALSE
InitialState == TRUE

\* The argument toggleExpandedState hands to setState: an updater function
\* of the previous state.  (The stale form hands over an object computed from
\* the state read at call time.)
ToggleUpdateStale(current) == [kind |-> "object", isExpanded |-> ~current]
ToggleUpdate(current) == [kind |-> "updater", isExpanded |-> FALSE]

\* One queued update applied to the previous state: an updater is called
\* with it, ({isExpanded}) => ({isExpanded: !isExpanded}); an object replaces
\* the field.
ApplyUpdate(prev, u) == IF u.kind = "updater" THEN ~prev ELSE u.isExpanded

\* The queue of an instance applied in the order the calls were made.
RECURSIVE ProcessQueue(_, _)
ProcessQueue(prev, q) ==
    IF q = <<>> THEN prev
    ELSE ProcessQueue(ApplyUpdate(prev, Head(q)), Tail(q))

\* this.setState(update) on instance r: the update joins r's queue.
SetStateShared(pend, r, u) == [s \in Rows |-> Append(pend[s], u)]
SetState(pend, r, u) == [pend EXCEPT ![r] = Append(@, u)]

\* {isExpanded && renderedChildren}: the value of the JSX expression.
LogicalAndAlways(expanded, children) == [kind |-> "nodes", items |-> children]
LogicalAnd(expanded, children) ==
    IF expanded THEN [kind |-> "nodes", items |-> children]
    ELSE [kind |-> "false", items |-> <<>>]

\* The <TransactionBar ... /> element of render().
TransactionBar(p, expanded) ==
    [type |-> "TransactionBar", location |-> p.location,
     organization |-> p.organization, index |-> p.index,
     transaction |-> p.transaction, traceInfo |-> p.traceInfo,
     continuingDepths |-> p.continuingDepths, isOrphan |-> p.isOrphan,
     isLast |-> p.isLast, isExpanded |-> expanded,
     toggleExpandedState |-> "this.toggleExpandedState",
     isVisible |-> p.isVisible, barColour |-> p.barColour]

\* render(): the fragment of the bar and the gated children.
Render(p, expanded) ==
    [fragment |-> <<TransactionBar(p, expanded)>>,
     gated |-> LogicalAnd(expanded, p.renderedChildren)]

\* What React puts on screen for a render result: false renders nothing.
Shown(out) == out.fragment \o out.gated.items

NoOutput == [fragment |-> <<>>, gated |-> [kind |-> "false", items |-> <<>>]]

InitRows ==
    /\ mounted = [r \in Rows |-> FALSE]
    /\ props = [r \in Rows |-> NoProps]
    /\ isExpanded = [r \in Rows |-> InitialState]
    /\ pending = [r \in Rows |-> <<>>]
    /\ toggles = [r \in Rows |-> 0]
    /\ output = [r \in Rows |-> NoOutput]
    /\ batching = FALSE
    /\ applied = [r \in Rows |-> 0]
    /\ last = [op |-> "none", row |-> 0]

\* The caller renders a new row: constructor, then the first render().
Mount(r, p) ==
    /\ ~mounted[r]
    /\ mounted' = [mounted EXCEPT ![r] = TRUE]
    /\ props' = [props EXCEPT ![r] = p]
    /\ isExpanded' = [isExpanded EXCEPT ![r] = InitialState]
    /\ pending' = [pending EXCEPT ![r] = <<>>]
    /\ toggles' = [toggles EXCEPT ![r] = 0]
    /\ output' = [output EXCEPT ![r] = Render(p, InitialState)]
    /\ applied' = [applied EXCEPT ![r] = 0]
    /\ last' = [op |-> "Mount", row |-> r]
    /\ UNCHANGED <<batching, viewVars>>

\* The caller stops rendering the row: the instance and its state are gone.
Unmount(r) ==
    /\ mounted[r]
    /\ mounted' = [mounted EXCEPT ![r] = FALSE]
    /\ props' = [props EXCEPT ![r] = NoProps]
    /\ isExpanded' = [isExpanded EXCEPT ![r] = InitialState]
    /\ pending' = [pending EXCEPT ![r] = <<>>]
    /\ toggles' = [toggles EXCEPT ![r] = 0]
    /\ output' = [output EXCEPT ![r] = NoOutput]
    /\ applied' = [applied EXCEPT ![r] = 0]
    /\ last' = [op |-> "Unmount", row |-> r]
    /\ UNCHANGED <<batching, viewVars>>

\* The state of row r once the queue pend[r] has been applied to it.
Flushed(pend, r) == ProcessQueue(isExpanded[r], pend[r])

\* toggleExpandedState(), the callback handed to the bar.  Inside an event
\* handler the update waits in the queue; outside one it is applied and the
\* row renders again before setState returns.
ToggleExpandedState(r) ==
    /\ mounted[r]
    /\ toggles[r] < MaxToggles
    /\ toggles' = [toggles EXCEPT ![r] = @ + 1]
    /\ LET pend == SetState(pending, r, ToggleUpdate(isExpanded[r]))
       IN IF batching
          THEN /\ pending' = pend
               /\ UNCHANGED <<isExpanded, output, applied>>
          ELSE /\ pending' = [s \in Rows |-> IF s = r THEN <<>> ELSE pend[s]]
               /\ isExpanded' = [isExpanded EXCEPT ![r] = Flushed(pend, r)]
               /\ output' = [output EXCEPT
                                ![r] = Render(props[r], Flushed(pend, r))]
               /\ applied' = [applied EXCEPT ![r] = Len(pend[r])]
    /\ last' = [op |-> "ToggleExpandedState", row |-> r]
    /\ UNCHANGED <<mounted, props, batching, viewVars>>

\* An event handler starts: setState calls made until it ends are batched.
BeginBatch ==
    /\ ~batching
    /\ batching' = TRUE
    /\ last' = [op |-> "BeginBatch", row |-> 0]
    /\ UNCHANGED <<mounted, props, isExpanded, pending, toggles, output,
                   applied, viewVars>>

\* The event handler ends: every queue is applied and the rows render again.
EndBatch ==
    /\ batching
    /\ batching' = FALSE
    /\ isExpanded' = [r \in Rows |-> Flushed(pending, r)]
    /\ output' = [r \in Rows |->
                    IF mounted[r] THEN Render(props[r], Flushed(pending, r))
                    ELSE output[r]]
    /\ pending' = [r \in Rows |-> <<>>]
    /\ applied' = [r \in Rows |->
                     IF mounted[r] THEN Len(pending[r]) ELSE applied[r]]
    /\ last' = [op |-> "EndBatch", row |-> 0]
    /\ UNCHANGED <<mounted, props, toggles, viewVars>>

\* The caller renders the row again with props p (the same or others): the
\* instance keeps its state, applies what is queued and calls render().
SetPropsReset(r, p) ==
    /\ mounted[r]
    /\ props' = [props EXCEPT ![r] = p]
    /\ isExpanded' = [isExpanded EXCEPT ![r] = InitialState]
    /\ pending' = [pending EXCEPT ![r] = <<>>]
    /\ output' = [output EXCEPT ![r] = Render(p, InitialState)]
    /\ applied' = [applied EXCEPT ![r] = Len(pending[r])]
    /\ last' = [op |-> "SetProps", row |-> r]
    /\ UNCHANGED <<mounted, toggles, batching, viewVars>>
SetProps(r, p) ==
    /\ mounted[r]
    /\ props' = [props EXCEPT ![r] = p]
    /\ isExpanded' = [isExpanded EXCEPT ![r] = Flushed(pending, r)]
    /\ pending' = [pending EXCEPT ![r] = <<>>]
    /\ output' = [output EXCEPT ![r] = Render(p, Flushed(pending, r))]
    /\ applied' = [applied EXCEPT ![r] = Len(pending[r])]
    /\ last' = [op |-> "SetProps", row |-> r]
    /\ UNCHANGED <<mounted, toggles, batching, viewVars>>

Next ==
    \/ \E r \in Rows : \E p \in PropsOf(r) : Mount(r, p)
    \/ \E r \in Rows : Unmount(r)
    \/ \E r \in Rows : ToggleExpandedState(r)
    \/ BeginBatch
    \/ EndBatch
    \/ \E r \in Rows : \E p \in PropsOf(r) : SetProps(r, p)

\* ================================================================ Icon ====
\* The twelve BreadcrumbType members the switch names, and members it does
\* not name.
ListedTypes ==
    {"USER", "UI", "NAVIGATION", "DEBUG", "INFO", "ERROR", "HTTP", "WARNING",
     "QUERY", "SYSTEM", "SESSION", "TRANSACTION"}
OtherTypes == {"DEFAULT", "EXCEPTION", "unrecognized"}
BreadcrumbType == ListedTypes \cup OtherTypes

Glyph(name) == [type |-> name, size |-> "xs"]
NoGlyph == [type |-> "none", size |-> "none"]

\* function Icon({type}): the switch, case by case.
IconNoUI(type) ==
    CASE type = "USER" -> Glyph("IconUser")
      [] type = "NAVIGATION" -> Glyph("IconLocation")
      [] type = "DEBUG" -> Glyph("IconFix")
      [] type = "INFO" -> Glyph("IconInfo")
      [] type = "ERROR" -> Glyph("IconFire")
      [] type = "HTTP" -> Glyph("IconSwitch")
      [] type = "WARNING" -> Glyph("IconWarning")
      [] type = "QUERY" -> Glyph("IconStack")
      [] type = "SYSTEM" -> Glyph("IconMobile")
      [] type = "SESSION" -> Glyph("IconRefresh")
      [] type = "TRANSACTION" -> Glyph("IconSpan")
      [] OTHER -> Glyph("IconTerminal")
IconSessionSpan(type) ==
    CASE type = "USER" -> Glyph("IconUser")
      [] type = "UI" -> Glyph("IconUser")
      [] type = "NAVIGATION" -> Glyph("IconLocation")
      [] type = "DEBUG" -> Glyph("IconFix")
      [] type = "INFO" -> Glyph("IconInfo")
      [] type = "ERROR" -> Glyph("IconFire")
      [] type = "HTTP" -> Glyph("IconSwitch")
      [] type = "WARNING" -> Glyph("IconWarning")
      [] type = "QUERY" -> Glyph("IconStack")
      [] type = "SYSTEM" -> Glyph("IconMobile")
      [] type = "SESSION" -> Glyph("IconSpan")
      [] type = "TRANSACTION" -> Glyph("IconSpan")
      [] OTHER -> Glyph("IconTerminal")
Icon(type) ==
    CASE type = "USER" -> Glyph("IconUser")
      [] type = "UI" -> Glyph("IconUser")
      [] type = "NAVIGATION" -> Glyph("IconLocation")
      [] type = "DEBUG" -> Glyph("IconFix")
      [] type = "INFO" -> Glyph("IconInfo")
      [] type = "ERROR" -> Glyph("IconFire")
      [] type = "HTTP" -> Glyph("IconSwitch")
      [] type = "WARNING" -> Glyph("IconWarning")
      [] type = "QUERY" -> Glyph("IconStack")
      [] type = "SYSTEM" -> Glyph("IconMobile")
      [] type = "SESSION" -> Glyph("IconRefresh")
      [] type = "TRANSACTION" -> Glyph("IconSpan")
      [] OTHER -> Glyph("IconTerminal")

InitIcon ==
    /\ iconType = "none" /\ iconOut = NoGlyph
    /\ prevType = "none" /\ prevOut = NoGlyph

\* <Icon type={t} /> is rendered; the render before it is remembered.
RenderIcon(t) ==
    /\ prevType' = iconType
    /\ prevOut' = iconOut
    /\ iconType' = t
    /\ iconOut' = Icon(t)
    /\ UNCHANGED <<rowVars, orgVars, dashVars>>

\* ===================================================== useOrganization ====
\* Values useContext(OrganizationContext) can yield: null when no
\* organization is set, or an organization.
NullOrg == [isNull |-> TRUE, slug |-> "null", features |-> <<>>]
Org(slug) == [isNull |-> FALSE, slug |-> slug, features |-> <<>>]
ContextValues == {NullOrg, Org("acme"), Org("sentry"), Org("")}

Threw(msg) == [threw |-> TRUE, message |-> msg, value |-> "none"]
Returned(v) == [threw |-> FALSE, message |-> "none", value |-> v]
NotCalled == [threw |-> FALSE, message |-> "none", value |-> "not called"]

\* !organization : only null (or undefined) is falsy; an object never is.
IsFalsyOrg(organization) == organization.isNull

\* export function useOrganization()
useOrganizationLenient(organization) == Returned(organization)
useOrganization(organization) ==
    IF IsFalsyOrg(organization)
    THEN Threw("useOrganization called but organization is not set.")
    ELSE Returned(organization)

\* export function useOrgSlug(): the throw of useOrganization propagates.
useOrgSlug(organization) ==
    LET res == useOrganization(organization)
    IN IF res.threw THEN res ELSE Returned(res.value.slug)

InitOrg ==
    /\ ctxValue = NullOrg
    /\ hookName = "none"
    /\ hookOut = NotCalled

\* A component under context value c calls useOrganization().
CallUseOrganization(c) ==
    /\ ctxValue' = c
    /\ hookName' = "useOrganization"
    /\ hookOut' = useOrganization(c)
    /\ UNCHANGED <<rowVars, iconVars, dashVars>>

\* A component under context value c calls useOrgSlug().
CallUseOrgSlug(c) ==
    /\ ctxValue' = c
    /\ hookName' = "useOrgSlug"
    /\ hookOut' = useOrgSlug(c)
    /\ UNCHANGED <<rowVars, iconVars, dashVars>>

\* =============================================== DashboardsV2Container ====
FeatureNames == {"dashboards-edit", "dashboards-basic", "discover-query"}

\* organization.features: arrays of at most MaxFeatures names.
FeatureLists ==
    UNION { [1..n -> FeatureNames] : n \in 0..MaxFeatures }

\* Array.prototype.includes
Includes(arr, x) == \E i \in 1..Len(arr) : arr[i] = x

\* What OrgDashboards hands to its render callback.
DashboardValues == {"undefined", "null", "D1"}
ErrorValues == {"undefined", "false", "true"}
LoaderStates ==
    [dashboard : DashboardValues, error : ErrorValues,
     dashboards : {<<>>, <<"D1">>}]

\* JavaScript truthiness of the values above.
Truthy(v) == v \notin {"undefined", "null", "false"}

\* The render callback passed to OrgDashboards:
\* error ? <NotFound/> : dashboard ? <DashboardDetail .../> : <LoadingIndicator/>
RenderCallbackDashboardFirst(l) ==
    IF Truthy(l.dashboard)
    THEN [type |-> "DashboardDetail", initialState |-> "VIEW",
          dashboard |-> l.dashboard, dashboards |-> l.dashboards,
          reloadData |-> "reloadData"]
    ELSE IF Truthy(l.error)
    THEN [type |-> "NotFound", initialState |-> "none", dashboard |-> "none",
          dashboards |-> <<>>, reloadData |-> "none"]
    ELSE [type |-> "LoadingIndicator", initialState |-> "none",
          dashboard |-> "none", dashboards |-> <<>>, reloadData |-> "none"]
RenderCallback(l) ==
    IF Truthy(l.error)
    THEN [type |-> "NotFound", initialState |-> "none", dashboard |-> "none",
          dashboards |-> <<>>, reloadData |-> "none"]
    ELSE IF Truthy(l.dashboard)
    THEN [type |-> "DashboardDetail", initialState |-> "VIEW",
          dashboard |-> l.dashboard, dashboards |-> l.dashboards,
          reloadData |-> "reloadData"]
    ELSE [type |-> "LoadingIndicator", initialState |-> "none",
          dashboard |-> "none", dashboards |-> <<>>, reloadData |-> "none"]

\* function DashboardsV2Container(props), with the OrgDashboards it renders
\* in loader state l.  wrappers lists the elements around the content, from
\* the outside in; content is what is rendered inside them.
DashboardsV2ContainerNoFlag(features, l) ==
    [wrappers |-> <<"DashboardBasicFeature", "OrgDashboards">>,
     content |-> <<RenderCallback(l)>>]
DashboardsV2Container(features, l) ==
    IF Includes(features, "dashboards-edit")
    THEN [wrappers |-> <<"Fragment">>,
          content |-> <<[type |-> "children", initialState |-> "none",
                         dashboard |-> "none", dashboards |-> <<>>,
                         reloadData |-> "none"]>>]
    ELSE [wrappers |-> <<"DashboardBasicFeature", "OrgDashboards">>,
          content |-> <<RenderCallback(l)>>]

NotRendered == [wrappers |-> <<>>, content |-> <<>>]

InitDash ==
    /\ dashProps = <<>>
    /\ loaderState = [dashboard |-> "undefined", error |-> "undefined",
                      dashboards |-> <<>>]
    /\ dashOut = NotRendered

\* The container is rendered for an organization with feature list f while
\* the loader is (or would be) in state l.
RenderContainer(f, l) ==
    /\ dashProps' = f
    /\ loaderState' = l
    /\ dashOut' = DashboardsV2Container(f, l)
    /\ UNCHANGED <<rowVars, iconVars, orgVars>>

NextIcon ==
    \E t \in BreadcrumbType : RenderIcon(t)

NextViews ==
    \/ \E c \in ContextValues : CallUseOrganization(c)
    \/ \E c \in ContextValues : CallUseOrgSlug(c)
    \/ \E f \in FeatureLists : \E l \in LoaderStates : RenderContainer(f, l)

\* ====================================================== specifications ====
Init == InitRows /\ InitIcon /\ InitOrg /\ InitDash

\* The transaction tree rows.
Spec == Init /\ [][Next]_vars

\* The icon selector.
SpecIcon == Init /\ [][NextIcon]_vars

\* The organization accessors and the dashboard route container.
SpecViews == Init /\ [][NextViews]_vars

\* ============================================================== claims ====
Even(n) == n % 2 = 0
BarOf(r) == output[r].fragment[1]

\* C1: a mounted row starts expanded and every toggle flips it: once the
\* toggles invoked on a row have been applied, the row is expanded exactly
\* when their number is even (a toggle still waiting in the queue has not
\* flipped the state yet).
C1_ExpandedIffEvenToggles ==
    \A r \in Rows :
        mounted[r] =>
            /\ isExpanded[r] <=> Even(toggles[r] - Len(pending[r]))
            /\ pending[r] = <<>> => (isExpanded[r] <=> Even(toggles[r]))

C1_Witness ==
    \E r \in Rows :
        /\ mounted[r] /\ toggles[r] = 2 /\ pending[r] = <<>>
        /\ isExpanded[r]
        /\ last = [op |-> "ToggleExpandedState", row |-> r]

\* C2: the output of a mounted row always holds exactly one TransactionBar,
\* the bar's isExpanded is the row's expansion state, and what is shown after
\* the bar is the caller's renderedChildren when the row is expanded and
\* nothing when it is collapsed.
C2_BarAndGatedChildren ==
    \A r \in Rows :
        mounted[r] =>
            /\ Len(output[r].fragment) = 1
            /\ BarOf(r).type = "TransactionBar"
            /\ BarOf(r).isExpanded = isExpanded[r]
            /\ Shown(output[r]) =
                 <<BarOf(r)>> \o (IF isExpanded[r]
                                  THEN props[r].renderedChildren ELSE <<>>)

C2_Witness ==
    \E r \in Rows :
        /\ mounted[r] /\ ~isExpanded[r]
        /\ props[r].renderedChildren = <<ChildA, ChildB>>
        /\ Shown(output[r]) = <<BarOf(r)>>
        /\ BarOf(r).isExpanded = FALSE

C9_QueuedTogglesAllApplied ==
    [][\A r \in Rows :
         (mounted[r] /\ mounted'[r] /\ pending[r] # <<>> /\ pending'[r] = <<>>)
             => isExpanded'[r] =
                  (IF Even(Len(pending[r])) THEN isExpanded[r]
                   ELSE ~isExpanded[r])]_vars

C9_Witness ==
    \E r \in Rows :
        /\ mounted[r] /\ applied[r] = 2 /\ toggles[r] = 2
        /\ last.op = "EndBatch"
        /\ isExpanded[r]

\* C10: a step that is no toggle on a row, taken while no toggle of the row
\* waits in the queue, leaves the row's expansion state as it is, and leaves
\* its output as it is when the props are the same.
C10_OnlyToggleChangesState ==
    [][\A r \in Rows :
         (mounted[r] /\ mounted'[r] /\ toggles'[r] = toggles[r]
            /\ pending[r] = <<>>)
             => /\ isExpanded'[r] = isExpanded[r]
                /\ props'[r] = props[r] => output'[r] = output[r]]_vars

C10_Witness ==
    \E r \in Rows :
        /\ last = [op |-> "SetProps", row |-> r]
        /\ mounted[r] /\ ~isExpanded[r] /\ toggles[r] = 1
        /\ props[r].barColour = "#444674"
        /\ Len(Shown(output[r])) = 1

\* C4: without 'dashboards-edit' in the feature list the container renders
\* exactly one of NotFound, DashboardDetail and LoadingIndicator: NotFound
\* when error is set (with or without a dashboard), else DashboardDetail with
\* initialState VIEW and the loaded dashboard when one is present, else
\* LoadingIndicator.
C4_PriorityOrder ==
    (dashOut # NotRendered
       /\ \A i \in 1..Len(dashProps) : dashProps[i] # "dashboards-edit")
    => /\ Len(dashOut.content) = 1
       /\ LET c == dashOut.content[1]
          IN /\ c.type \in {"NotFound", "DashboardDetail", "LoadingIndicator"}
             /\ c.type = "NotFound" <=> loaderState.error = "true"
             /\ c.type = "DashboardDetail" <=>
                  (loaderState.error # "true" /\ loaderState.dashboard = "D1")
             /\ c.type = "DashboardDetail" =>
                  /\ c.initialState = "VIEW"
                  /\ c.dashboard = loaderState.dashboard
                  /\ c.dashboards = loaderState.dashboards

C4_Witness ==
    /\ dashOut # NotRendered
    /\ dashProps = <<"dashboards-basic">>
    /\ loaderState.error = "true" /\ loaderState.dashboard = "D1"
    /\ dashOut.content[1].type = "NotFound"

\* C5: with 'dashboards-edit' in the feature list the container renders its
\* children inside a Fragment and nothing else, whatever the loader state:
\* no OrgDashboards, NotFound, DashboardDetail or LoadingIndicator.
C5_FlagPassesChildrenThrough ==
    (dashOut # NotRendered
       /\ \E i \in 1..Len(dashProps) : dashProps[i] = "dashboards-edit")
    => /\ dashOut.wrappers = <<"Fragment">>
       /\ Len(dashOut.content) = 1
       /\ dashOut.content[1].type = "children"

C5_Witness ==
    /\ dashOut # NotRendered
    /\ dashProps = <<"dashboards-basic", "dashboards-edit">>
    /\ loaderState.error = "true"
    /\ dashOut.content[1].type = "children"

\* C6: with no organization in the context both hooks throw; with one,
\* useOrganization returns that organization and useOrgSlug its slug.
C6_ThrowsIffAbsent ==
    hookName # "none" =>
        /\ hookOut.threw <=> ctxValue = NullOrg
        /\ hookOut.threw =>
             hookOut.message =
                 "useOrganization called but organization is not set."
        /\ (~hookOut.threw /\ hookName = "useOrganization") =>
             hookOut.value = ctxValue
        /\ (~hookOut.threw /\ hookName = "useOrgSlug") =>
             hookOut.value = ctxValue.slug

C6_Witness ==
    /\ hookName = "useOrgSlug"
    /\ ctxValue = NullOrg
    /\ hookOut.threw

\* The reference table of the listed breadcrumb types.
ReferenceGlyph ==
    [t \in ListedTypes |->
        CASE t \in {"USER", "UI"} -> "IconUser"
          [] t = "NAVIGATION" -> "IconLocation"
          [] t = "DEBUG" -> "IconFix"
          [] t = "INFO" -> "IconInfo"
          [] t = "ERROR" -> "IconFire"
          [] t = "HTTP" -> "IconSwitch"
          [] t = "WARNING" -> "IconWarning"
          [] t = "QUERY" -> "IconStack"
          [] t = "SYSTEM" -> "IconMobile"
          [] t = "SESSION" -> "IconRefresh"
          [] t = "TRANSACTION" -> "IconSpan"]

\* C7: every breadcrumb type yields a glyph: a listed type the glyph of the
\* reference table, any other type IconTerminal.
C7_IconTotal ==
    iconType # "none" =>
        /\ iconOut # NoGlyph
        /\ iconOut.size = "xs"
        /\ iconType \in ListedTypes => iconOut.type = ReferenceGlyph[iconType]
        /\ iconType \notin ListedTypes => iconOut.type = "IconTerminal"

C7_Witness ==
    /\ iconType = "unrecognized"
    /\ iconOut = Glyph("IconTerminal")
    /\ prevType = "UI"
    /\ prevOut = Glyph("IconUser")

\* C8 as stated: two different listed breadcrumb types never yield the same
\* glyph.
C8_AllDistinct ==
    (iconType \in ListedTypes /\ prevType \in ListedTypes
       /\ iconType # prevType)
    => iconOut # prevOut

\* C8 as amended: two different listed breadcrumb types yield different
\* glyphs unless they are USER and UI, which both yield IconUser.
C8_DistinctExceptUserUI ==
    (iconType \in ListedTypes /\ prevType \in ListedTypes
       /\ iconType # prevType)
    => (iconOut = prevOut <=> {iconType, prevType} = {"USER", "UI"})

C8_Witness ==
    /\ prevType = "SESSION" /\ iconType = "TRANSACTION"
    /\ prevOut = Glyph("IconRefresh") /\ iconOut = Glyph("IconSpan")
====
